---- MODULE Spec2Model ----
(***************************************************************************)
(* The authenticated transport of the portfolio application: the axios     *)
(* based ApiClient (src/src/api-services/client.ts) with its request and   *)
(* response interceptors, AuthService (src/src/api-services/               *)
(* auth.service.ts) and the session state exposed by the useAuth hooks     *)
(* (src/src/hooks/api/use-auth.ts).                                        *)
(*                                                                         *)
(* The program runs on one event loop.  A step of the model is what runs   *)
(* between two network events: a call is put on the wire, or the answer to *)
(* one call arrives and every continuation that the answer makes runnable  *)
(* runs to its next network await.  The remote API is the environment: it  *)
(* answers each call with any status, and every credential pair it grants  *)
(* is a fresh one.                                                         *)
(***************************************************************************)
EXTENDS Naturals, FiniteSets

\* ------------------------------------------------------------------ bounds
\* Number of calls issued through the client in one run, the getCurrentUser
\* of checkAuth included.
MaxReq == 2
\* Number of credential pairs the remote API grants in one run.
MaxTok == 3

Slots == 1..MaxReq
Tok == 1..MaxTok
\* localStorage.getItem answers null for a missing entry.
None == 0

\* The calls of AuthService and of the business services that go through
\* the client: signIn, signUp, signOut, refreshToken, getCurrentUser and any
\* other endpoint.  IssuedKinds are those a caller makes after the mount.
IssuedKinds == {"api", "login", "register", "signout", "refresh"}
Kinds == IssuedKinds \cup {"me"}

\* What comes back for one call, by the classes the client can tell apart:
\* a 2xx, a 401, another 4xx, a 5xx, or no response at all.
OK == "2xx"
Unauthorized == "401"
Statuses == {"2xx", "401", "4xx", "5xx", "network"}
ErrorStatuses == Statuses \ {OK}

VARIABLES
    authToken,        \* localStorage entry 'auth_token'
    refreshToken,     \* localStorage entry 'refresh_token'
    req,              \* the calls issued through the client, by slot
    nextTok,          \* remote API: the next credential pair it grants
    isAuthenticated,  \* useAuth (state based): useState isAuthenticated
    user,             \* useAuth (state based, use-auth.ts:6-113): useState
                      \* user (TRUE: a user, FALSE: null)
    queryUser,        \* useAuth (query based): cache entry authKeys.user()
    href,             \* window.location.href (the navigation is recorded;
                      \* the calls already on the wire are followed on)
    last              \* the step that led to this state

vars == <<authToken, refreshToken, req, nextTok, isAuthenticated, user,
          queryUser, href, last>>

\* The descriptor of a call (error.config / originalRequest) and where the
\* call is: kind of endpoint, Authorization header of the copy on the wire,
\* the _retry mark, how often it was put on the wire, how many renewal
\* exchanges were made for it, the refresh token its exchange submitted, and
\* expect: the access token granted by the first renewal that succeeded
\* while the call was waiting for a renewal (None: none yet).  outs: the
\* signOut calls invoked while this call's renewal exchange is in flight;
\* discard: one of them has settled before the exchange has; wrote: the
\* interceptor changed the store while handling this call; aborted: the
\* caller aborted the signal of the call's config while the call was waiting
\* for its renewal exchange.
\* A slot no call has been issued in yet:
FreeReq ==
    [kind |-> "api", st |-> "free", bearer |-> None, retry |-> FALSE,
     sends |-> 0, renewals |-> 0, rt |-> None, expect |-> None,
     outs |-> {}, discard |-> FALSE, wrote |-> FALSE, aborted |-> FALSE]

\* A slot whose call has settled: the descriptor is dropped.
DoneReq == [FreeReq EXCEPT !.st = "done"]

\* The step taken: which handler ran for which call, the status it saw, the
\* credential pair the remote API granted in it (None: none), how the call's
\* promise settled in it ("none": it did not), and the call's descriptor at
\* the end of the step.
Event(op, q, status, tok, settled) ==
    [op |-> op, kind |-> q.kind, status |-> status, tok |-> tok,
     settled |-> settled, retry |-> q.retry, sends |-> q.sends,
     renewals |-> q.renewals, bearer |-> q.bearer, discard |-> q.discard,
     wrote |-> q.wrote, aborted |-> q.aborted]

\* ApiClient.getAuthToken / AuthService.getAuthToken
getAuthToken == authToken

\* AuthService.isAuthenticated: !!localStorage.getItem('auth_token')
authService_isAuthenticated == authToken # None

\* Renewal exchanges on the wire: each call waiting in refreshAuthToken owns
\* the axios.post to /auth/refresh it made.
RenewalsInFlight == {r \in Slots : req[r].st = "refreshing"}

\* Request interceptor: the stored access token, if any, replaces the
\* Authorization header of the call; otherwise the header stays as it is.
requestInterceptor_attachesNothing(stored, header) == header

requestInterceptor(stored, header) == IF stored # None THEN stored ELSE header

\* checkAuth of useAuth: whether the profile is fetched, given
\* authService.isAuthenticated().
checkAuth_fetchesAlways(isAuth) == TRUE

checkAuth_fetches(isAuth) == isAuth

\* The state once useAuth has mounted: useState(() =>
\* authService.isAuthenticated()), and checkAuth has run up to its await.
Init ==
    /\ \E t \in {None, 1} : authToken = t /\ refreshToken = t
    /\ req = [r \in Slots |->
                 IF r = 1 /\ checkAuth_fetches(authService_isAuthenticated)
                 THEN [FreeReq EXCEPT !.kind = "me", !.st = "sent",
                                      !.bearer = requestInterceptor(getAuthToken, None),
                                      !.sends = 1]
                 ELSE FreeReq]
    /\ nextTok = 2
    /\ isAuthenticated = authService_isAuthenticated
    /\ user = FALSE
    /\ queryUser = FALSE
    /\ href = "/"
    /\ last = Event("init", FreeReq, "none", None, "none")

\* ------------------------------------------------------------ the client
\* Bodies of a 2xx answer to /auth/login and /auth/register: the ApiResponse
\* wrapper's success flag, and whether data carries tokens and a user.
AuthBodies == [success : BOOLEAN, tokens : BOOLEAN, user : BOOLEAN]
NoBody == [success |-> TRUE, tokens |-> FALSE, user |-> FALSE]

\* AuthService.refreshToken up to its await: null without a stored refresh
\* token (nothing is sent and nothing changes), otherwise
\* apiClient.post('/auth/refresh', {refreshToken}).
refreshToken_posts == refreshToken # None

\* ApiClient.get/post/...: the request interceptor attaches the stored
\* access token, if any, and the call goes on the wire.
Issue(r, k) ==
    /\ req[r].st = "free"
    /\ k = "refresh" => refreshToken_posts
    /\ \A s \in Slots : s < r => req[s].st # "free"
    /\ req' = [s \in Slots |->
                  IF s = r
                  THEN [FreeReq EXCEPT !.kind = k, !.st = "sent",
                                       !.bearer = requestInterceptor(getAuthToken, None),
                                       !.sends = 1]
                  ELSE IF k = "signout" /\ req[s].st = "refreshing"
                  THEN [req[s] EXCEPT !.outs = @ \cup {r}]
                  ELSE req[s]]
    /\ last' = Event("issue", req'[r], "none", None, "none")
    /\ UNCHANGED <<authToken, refreshToken, nextTok, isAuthenticated, user,
                   queryUser, href>>

\* AuthService.signOut: try { await apiClient.post('/auth/signout') }
\* finally { remove both entries }: whether the entries are removed, given
\* how the post settled.  The promise of signOut settles as the post did.
signOut_clearsOnSuccessOnly(ok) == ok

signOut_clears(ok) == TRUE

\* AuthService.signIn / signUp / refreshToken with success and tokens in
\* the answer: the two setItem calls, accessToken of pair k under
\* 'auth_token' and its refreshToken under 'refresh_token'.
storedPair_accessOnly(k) == [auth_token |-> k, refresh_token |-> None]

storedPair(k) == [auth_token |-> k, refresh_token |-> k]

\* The continuation of the caller of the client once the call's promise has
\* settled (ok: resolved with a response; otherwise rejected), through the
\* AuthService method and the useAuth mutation callbacks.  q is the call's
\* descriptor as the interceptor left it, body the 2xx body, k the pair
\* granted in it.
Settle(r, q, ok, body, k, op, status) ==
    LET stores == body.success /\ body.tokens
        isAuth == q.kind \in {"login", "register"}
        isRefresh == q.kind = "refresh"
        grants == (isAuth \/ isRefresh) /\ ok /\ body.tokens
        isOut  == q.kind = "signout"
        isMe   == q.kind = "me"
    IN
    /\ req' = [s \in Slots |->
                  IF s = r THEN DoneReq
                  ELSE IF isOut /\ r \in req[s].outs /\ req[s].st = "refreshing"
                  THEN [req[s] EXCEPT !.discard = TRUE]
                  ELSE req[s]]
    /\ authToken' =
          IF isOut /\ signOut_clears(ok) THEN None
          ELSE IF (isAuth \/ isRefresh) /\ ok /\ stores
          THEN storedPair(k).auth_token
          ELSE authToken
    /\ refreshToken' =
          IF isOut /\ signOut_clears(ok) THEN None
          ELSE IF (isAuth \/ isRefresh) /\ ok /\ stores
          THEN storedPair(k).refresh_token
          ELSE refreshToken
    /\ nextTok' = IF grants THEN nextTok + 1 ELSE nextTok
    \* useAuth, state based: signIn/signUp onSuccess (without a user it
    \* throws, and the mutation then runs onError) and onError, signOut
    \* onSuccess (there is no onError for signOut), and checkAuth after
    \* its await: setUser(userData), or the catch.
    /\ isAuthenticated' =
          IF isAuth THEN ok /\ body.user
          ELSE IF isOut /\ ok THEN FALSE
          ELSE IF isMe /\ ~ok THEN FALSE
          ELSE isAuthenticated
    /\ user' =
          IF isAuth THEN ok /\ body.user
          ELSE IF isOut /\ ok THEN FALSE
          ELSE IF isMe THEN ok
          ELSE user
    \* useAuth, query based: setQueryData(authKeys.user(), ...), the
    \* navigation of signOut's onSuccess and onError, and the data of the
    \* query whose queryFn is getCurrentUser.
    /\ queryUser' =
          IF isAuth /\ ok /\ body.user THEN TRUE
          ELSE IF isOut THEN FALSE
          ELSE IF isMe /\ ok THEN TRUE
          ELSE queryUser
    /\ href' = IF isOut THEN "/sign-in" ELSE href
    /\ last' = Event(op, q, status,
                     IF grants THEN k ELSE None,
                     IF ok THEN "resolved" ELSE "rejected")

\* Response interceptor, fulfilled branch: (response) => response.
RespondSuccess(r) ==
    /\ req[r].st = "sent"
    /\ \E body \in AuthBodies :
          /\ \/ req[r].kind \in {"login", "register"}
             \/ req[r].kind = "refresh" /\ ~body.user
             \/ body = NoBody
          /\ body.tokens => nextTok <= MaxTok
          /\ Settle(r, req[r], TRUE, body, nextTok, "respond", OK)

\* ApiClient.refreshAuthToken up to its await: null without a stored
\* refresh token, otherwise the bare axios.post to /auth/refresh.
refreshAuthToken_startsAlways == TRUE

refreshAuthToken_starts == refreshToken # None

\* refreshAuthToken at its await: the exchange of the stored refresh token
\* goes on the wire and the call waits for it.
StartRenewal(r, q, s) ==
    /\ req' = [req EXCEPT ![r] =
                  [q EXCEPT !.st = "refreshing",
                            !.rt = refreshToken,
                            !.renewals = @ + 1]]
    /\ last' = Event("respond", req'[r], s, None, "none")
    /\ UNCHANGED <<authToken, refreshToken, nextTok, isAuthenticated,
                   user, queryUser, href>>

\* Response interceptor, rejected branch: the test that sends an error to
\* the renewal, error.response?.status === 401 && !originalRequest._retry.
shouldRefresh_ignoresRetryMark(q, s) == s = Unauthorized

shouldRefresh(q, s) == s = Unauthorized /\ ~q.retry

\* Response interceptor, rejected branch, status 401 on a call not yet
\* retried, had the _retry mark not been set.
RespondAuthExpired_forgetsMark(r) ==
    /\ req[r].st = "sent"
    /\ shouldRefresh(req[r], Unauthorized)
    /\ IF refreshAuthToken_starts
       THEN StartRenewal(r, req[r], Unauthorized)
       ELSE Settle(r, req[r], FALSE, NoBody, None, "respond", Unauthorized)

\* Response interceptor, rejected branch, status 401 on a call not yet
\* retried: mark it, and renew.
RespondAuthExpired(r) ==
    LET q == [req[r] EXCEPT !.retry = TRUE] IN
    /\ req[r].st = "sent"
    /\ shouldRefresh(req[r], Unauthorized)
    /\ IF refreshAuthToken_starts
       THEN StartRenewal(r, q, Unauthorized)
       ELSE \* newToken is null: Promise.reject(this.formatError(error))
            Settle(r, q, FALSE, NoBody, None, "respond", Unauthorized)

\* Response interceptor, rejected branch, anything else: a 401 on a call
\* already retried, another status, or no response at all.
RespondOtherError_renews(r, s) ==
    /\ req[r].st = "sent"
    /\ s \in ErrorStatuses
    /\ ~shouldRefresh(req[r], s)
    /\ IF refreshAuthToken_starts /\ ~req[r].retry
       THEN StartRenewal(r, [req[r] EXCEPT !.retry = TRUE], s)
       ELSE Settle(r, req[r], FALSE, NoBody, None, "respond", s)

RespondOtherError_clearsStore(r, s) ==
    /\ req[r].st = "sent"
    /\ s \in ErrorStatuses
    /\ ~shouldRefresh(req[r], s)
    /\ req' = [req EXCEPT ![r] = DoneReq]
    /\ authToken' = None
    /\ refreshToken' = None
    /\ last' = Event("respond", req[r], s, None, "rejected")
    /\ UNCHANGED <<nextTok, isAuthenticated, user, queryUser, href>>

RespondOtherError(r, s) ==
    /\ req[r].st = "sent"
    /\ s \in ErrorStatuses
    /\ ~shouldRefresh(req[r], s)
    /\ Settle(r, req[r], FALSE, NoBody, None, "respond", s)

\* The caller aborts the signal it passed in the config of a call.  Only
\* the business services can pass a config; AuthService passes none.  A call
\* on the wire is torn down and its promise rejects through the rejected
\* branch of the response interceptor, without a response; a call waiting
\* in refreshAuthToken goes on waiting, for the bare axios.post of the
\* renewal carries no signal.
Canceled == "canceled"

Abort(r) ==
    /\ req[r].kind = "api"
    /\ ~req[r].aborted
    /\ \/ /\ req[r].st = "sent"
          /\ Settle(r, [req[r] EXCEPT !.aborted = TRUE], FALSE, NoBody, None,
                    "abort", Canceled)
       \/ /\ req[r].st = "refreshing"
          /\ req' = [req EXCEPT ![r].aborted = TRUE]
          /\ last' = Event("abort", req'[r], Canceled, None, "none")
          /\ UNCHANGED <<authToken, refreshToken, nextTok, isAuthenticated,
                         user, queryUser, href>>

\* The same, had the interceptor called this.client(originalRequest) before
\* the store was written: the request interceptor reads the old entry.
RenewalSucceeds_resendsFirst(r) ==
    /\ req[r].st = "refreshing"
    /\ nextTok <= MaxTok
    /\ authToken' = nextTok
    /\ UNCHANGED refreshToken
    /\ req' = [req EXCEPT ![r] =
                  [req[r] EXCEPT !.st = "sent",
                                 !.bearer = requestInterceptor(authToken, nextTok),
                                 !.sends = @ + 1,
                                 !.wrote = TRUE]]
    /\ nextTok' = nextTok + 1
    /\ last' = Event("renewalOk", req'[r], OK, nextTok, "none")
    /\ UNCHANGED <<isAuthenticated, user, queryUser, href>>

\* refreshAuthToken after its await, the exchange having succeeded, and the
\* interceptor after it: setAuthToken(accessToken) in both, then
\* this.client(originalRequest), whose request interceptor attaches the
\* stored access token.  With an aborted signal in the config axios does
\* not put the call on the wire: it rejects with a CanceledError, which the
\* rejected branch of the response interceptor formats and passes on.
RenewalSucceeds(r) ==
    LET resent == [req[r] EXCEPT !.bearer = requestInterceptor(authToken', nextTok),
                                 !.wrote = authToken' # authToken]
    IN
    /\ req[r].st = "refreshing"
    /\ nextTok <= MaxTok
    /\ authToken' = nextTok
    /\ UNCHANGED refreshToken
    /\ req' = [s \in Slots |->
                  IF s = r
                  THEN IF req[r].aborted THEN DoneReq
                       ELSE [resent EXCEPT !.st = "sent", !.sends = @ + 1]
                  ELSE IF req[s].st = "refreshing" /\ req[s].expect = None
                  THEN [req[s] EXCEPT !.expect = nextTok]
                  ELSE req[s]]
    /\ nextTok' = nextTok + 1
    /\ last' = IF req[r].aborted
               THEN Event("renewalOk", resent, OK, nextTok, "rejected")
               ELSE Event("renewalOk", req'[r], OK, nextTok, "none")
    /\ UNCHANGED <<isAuthenticated, user, queryUser, href>>

\* The same, had the exchange been made through this.client: its 401 would
\* enter the rejected branch of the response interceptor and renew again.
RenewalFails_throughClient(r, s) ==
    /\ req[r].st = "refreshing"
    /\ s \in ErrorStatuses
    /\ IF s = Unauthorized /\ req[r].renewals < 2
       THEN StartRenewal(r, req[r], s)
       ELSE Settle(r, req[r], FALSE, NoBody, None, "renewalFailed", s)

\* The same, had the failure removed the access token alone.
RenewalFails_removesAccessToken(r, s) ==
    /\ req[r].st = "refreshing"
    /\ s \in ErrorStatuses
    /\ req' = [req EXCEPT ![r] = DoneReq]
    /\ authToken' = None
    /\ last' = Event("renewalFailed", req[r], s, None, "rejected")
    /\ UNCHANGED <<refreshToken, nextTok, isAuthenticated, user, queryUser,
                   href>>

\* refreshAuthToken after its await, the exchange having failed: catch,
\* return null; the interceptor then rejects with the formatted 401.
RenewalFails(r, s) ==
    /\ req[r].st = "refreshing"
    /\ s \in ErrorStatuses
    /\ Settle(r, req[r], FALSE, NoBody, None, "renewalFailed", s)

Next ==
    \/ \E r \in Slots, k \in IssuedKinds : Issue(r, k)
    \/ \E r \in Slots : RespondSuccess(r)
    \/ \E r \in Slots : RespondAuthExpired(r)
    \/ \E r \in Slots, s \in Statuses : RespondOtherError(r, s)
    \/ \E r \in Slots : Abort(r)
    \/ \E r \in Slots : RenewalSucceeds(r)
    \/ \E r \in Slots, s \in Statuses : RenewalFails(r, s)

Spec == Init /\ [][Next]_vars

\* The network returns: the answer to what call r has on the wire, its own
\* copy or its renewal exchange, arrives and is handled.
Answer(r) ==
    \/ RespondSuccess(r)
    \/ RespondAuthExpired(r)
    \/ \E s \in Statuses : RespondOtherError(r, s)
    \/ RenewalSucceeds(r)
    \/ \E s \in Statuses : RenewalFails(r, s)

\* The program under a network on which every call eventually returns: as
\* long as something is on the wire, an answer is eventually handled.
FairSpec == Spec /\ WF_vars(\E r \in Slots : Answer(r))

TypeOK ==
    /\ authToken \in Tok \cup {None}
    /\ refreshToken \in Tok \cup {None}
    /\ nextTok \in 2..(MaxTok + 1)
    /\ isAuthenticated \in BOOLEAN /\ user \in BOOLEAN /\ queryUser \in BOOLEAN
    /\ href \in {"/", "/sign-in"}
    /\ \A r \in Slots :
          /\ req[r].st \in {"free", "sent", "refreshing", "done"}
          /\ req[r].kind \in Kinds
          /\ req[r].bearer \in Tok \cup {None}
          /\ req[r].rt \in Tok \cup {None}
          /\ req[r].expect \in Tok \cup {None}

\* ------------------------------------------------------------ the claims

\* C1: when several calls sent with the same stored credential each receive
\* a 401, the renewal endpoint is invoked once for all of them: never are
\* two renewal exchanges made on behalf of calls that bore the same
\* credential.
C1_OneRenewalPerBurst ==
    \A t \in Tok \cup {None} :
        Cardinality({r \in Slots : req[r].st = "refreshing" /\ req[r].bearer = t}) <= 1

\* C2: in every reachable state at most one renewal exchange with
\* /auth/refresh is in flight.
C2_AtMostOneRenewalInFlight == Cardinality(RenewalsInFlight) <= 1

\* C3: a call that was waiting for a renewal when a renewal succeeded is
\* re-sent carrying the access token that renewal returned, so that all
\* calls waiting together are re-sent with one and the same token.
C3_SameRenewalOutcome ==
    \A r \in Slots :
        (req[r].st = "sent" /\ req[r].sends = 2 /\ req[r].expect # None)
            => req[r].bearer = req[r].expect

\* C4: a call that received a 401 and whose renewal succeeded is re-sent
\* exactly once; whatever answers the re-send settles the call with that
\* outcome, with no further renewal and no further re-send.
C4_ResentExactlyOnce ==
    /\ \A r \in Slots :
          /\ req[r].sends <= 2
          /\ req[r].renewals <= 1
          /\ (req[r].st = "sent" /\ req[r].renewals = 1) => req[r].sends = 2
    /\ (last.op = "respond" /\ last.sends = 2)
          => /\ last.settled # "none"
             /\ last.renewals = 1
             /\ (last.settled = "resolved") <=> (last.status = OK)

\* C4 witness: the re-send of a renewed call was answered 401 again and the
\* call was rejected then and there.
C4_Witness ==
    /\ last.op = "respond" /\ last.sends = 2 /\ last.renewals = 1
    /\ last.status = Unauthorized /\ last.settled = "rejected"

\* C5: whenever a renewal attempt fails, both stored tokens are removed and
\* the session is forced to /sign-in.
C5_RenewalFailureSignsOut ==
    last.op = "renewalFailed"
        => authToken = None /\ refreshToken = None /\ href = "/sign-in"

\* C6: in every reachable state the access token and the refresh token are
\* both present or both absent.
C6_PairAtomic == (authToken = None) <=> (refreshToken = None)

\* C7: after a renewal succeeds the store holds exactly the pair the renewal
\* endpoint returned, access token and refresh token both replaced.
C7_RenewalStoresPair ==
    last.op = "renewalOk" => authToken = last.tok /\ refreshToken = last.tok

\* C8: after AuthService.signOut() settles both stored tokens are absent,
\* whether the remote call succeeded, was rejected or failed on the network.
C8_SignOutClearsTokens ==
    (last.kind = "signout" /\ last.settled # "none")
        => authToken = None /\ refreshToken = None

\* C8 witness: a signOut sent with a stored credential settles after the
\* remote call failed on the network, and the store is empty.
C8_Witness ==
    /\ last.kind = "signout" /\ last.settled = "rejected"
    /\ last.status = "network" /\ last.bearer # None
    /\ authToken = None /\ refreshToken = None

\* C9: after the sign-out of useAuth settles, the session state exposed to
\* the application is Unauthenticated (isAuthenticated false, user null),
\* whether the remote call succeeded or failed.
C9_SignOutUnauthenticates ==
    (last.kind = "signout" /\ last.settled # "none")
        => ~isAuthenticated /\ ~user

\* C10: signOut() never throws, whatever the remote endpoint answers, and
\* the store is empty after each call.
C10_SignOutNeverThrows ==
    (last.kind = "signout" /\ last.settled # "none")
        => last.settled = "resolved" /\ authToken = None /\ refreshToken = None

\* C11: when signOut() was invoked while a renewal was in flight and has
\* settled, the renewal's result is discarded on its completion: the store
\* is empty and the session derived from it is Unauthenticated.
C11_RenewalDiscardedAfterSignOut ==
    (last.op = "renewalOk" /\ last.discard)
        => authToken = None /\ refreshToken = None /\ ~authService_isAuthenticated

\* C12: a call that receives a 401 while no refresh token is stored makes no
\* call to the renewal endpoint and is not re-sent: it is rejected in that
\* very step.
C12_NoRefreshTokenNoRenewal ==
    [][\A r \in Slots :
          (/\ req[r].st = "sent" /\ req'[r].st # "sent"
           /\ last'.op = "respond" /\ last'.status = Unauthorized
           /\ refreshToken = None)
          => /\ req'[r].st = "done"
             /\ last'.settled = "rejected"
             /\ last'.renewals = req[r].renewals
             /\ last'.sends = req[r].sends
             /\ RenewalsInFlight' = RenewalsInFlight]_vars

\* C12 witness: a first send was answered 401 with no refresh token stored
\* and the call was rejected without a renewal.
C12_Witness ==
    /\ last.op = "respond" /\ last.status = Unauthorized /\ last.kind = "api"
    /\ last.sends = 1 /\ last.renewals = 0 /\ last.settled = "rejected"
    /\ refreshToken = None

\* C13: when a call receives a 401 and no refresh token exists, a sign-out
\* is triggered: a remaining access token is removed and the session
\* becomes Unauthenticated.
C13_NoRefreshTokenSignsOut ==
    (/\ last.op = "respond" /\ last.status = Unauthorized
     /\ last.sends = 1 /\ last.settled = "rejected")
        => authToken = None /\ ~isAuthenticated

\* C14: every copy of a call put on the wire, first send or re-send, carries
\* the access token that is in the store at that moment, and none when the
\* store holds none.
C14_BearerIsStoredToken ==
    /\ last.op \in {"issue", "renewalOk"} => last.bearer = authToken
    /\ last.op = "init" =>
          \A r \in Slots : req[r].st = "sent" => req[r].bearer = authToken

\* C14 witness: a re-send after a renewal carries the stored access token.
C14_Witness ==
    /\ last.op = "renewalOk" /\ last.sends = 2
    /\ authToken # None /\ last.bearer = authToken

\* C15: a call whose first answer is a success, a non-401 4xx, a 5xx or a
\* network failure settles in that step, sent once: no renewal exchange is
\* made, it is not re-sent, and the request itself leaves the store as it is.
C15_OtherOutcomesSentOnce ==
    [][\A r \in Slots :
          (/\ req[r].st = "sent" /\ req[r].sends = 1 /\ req'[r].st # "sent"
           /\ last'.op = "respond" /\ last'.status # Unauthorized)
          => /\ req'[r].st = "done"
             /\ last'.sends = 1
             /\ last'.renewals = 0
             /\ RenewalsInFlight' = RenewalsInFlight
             /\ req[r].kind \in {"api", "me"}
                   => authToken' = authToken /\ refreshToken' = refreshToken]_vars

\* C15 witness: a call sent with a full store was answered 5xx and rejected
\* after one send and no renewal.
C15_Witness ==
    /\ last.op = "respond" /\ last.status = "5xx" /\ last.kind = "api"
    /\ last.sends = 1 /\ last.renewals = 0 /\ last.settled = "rejected"
    /\ authToken # None /\ refreshToken # None

\* C16: the store changes only in a step that settles a sign-in, a sign-up
\* or a sign-out, or that completes a renewal attempt, the interceptor's or
\* AuthService.refreshToken's; sending a call and settling any other call,
\* re-sent or not, leave it as it is.
C16_StoreWriters ==
    [][(authToken' # authToken \/ refreshToken' # refreshToken)
          => \/ last'.op \in {"renewalOk", "renewalFailed"}
             \/ /\ last'.settled # "none"
                /\ last'.kind \in {"login", "register", "signout", "refresh"}]_vars

\* C16 witness: a call re-sent after a renewal settles after a sign-out has
\* emptied the store, and the store is still empty.
C16_Witness ==
    /\ last.op = "respond" /\ last.sends = 2 /\ last.kind \in {"api", "me"}
    /\ last.settled # "none"
    /\ authToken = None /\ refreshToken = None /\ href = "/sign-in"

\* C17: whenever signIn or signUp completes and the session is marked
\* Authenticated, the store holds the credential pair that exchange
\* returned.
C17_SignInStoresPair ==
    (/\ last.kind \in {"login", "register"} /\ last.settled = "resolved"
     /\ isAuthenticated)
        => last.tok # None /\ authToken = last.tok /\ refreshToken = last.tok

\* C18: when the sign-in exchange fails, the session is not Authenticated
\* and the handling of the sign-in call has left the store as it was.
C18_FailedSignInLeavesStore ==
    (last.kind = "login" /\ last.settled = "rejected")
        => ~last.wrote /\ ~isAuthenticated

\* C19: in every reachable state the session state exposed to the
\* application is Authenticated if and only if the store is non-empty.
C19_SessionIffStore == isAuthenticated <=> authService_isAuthenticated

\* C20: on bootstrap, with a non-empty store the session is Authenticated
\* before any answer has arrived and the one call made is the profile fetch
\* through the client; with an empty store the session is Unauthenticated
\* and no call is made.
C20_Bootstrap ==
    last.op = "init" =>
        IF authService_isAuthenticated
        THEN /\ isAuthenticated
             /\ req[1].kind = "me" /\ req[1].st = "sent"
             /\ req[1].bearer = authToken
             /\ \A r \in Slots \ {1} : req[r].st = "free"
        ELSE /\ ~isAuthenticated
             /\ \A r \in Slots : req[r].st = "free"

\* C20 witness: the bootstrap with a stored credential.
C20_Witness ==
    /\ last.op = "init" /\ authService_isAuthenticated /\ isAuthenticated
    /\ req[1].kind = "me" /\ req[1].st = "sent"

\* C21: a call aborted by its caller while it was waiting for a renewal is
\* never re-sent once the renewal has completed, and what its caller
\* observes is the cancellation: the call is rejected with the cancellation
\* and is not settled with the outcome of anything else.
C21_AbortedWaiterCancelled ==
    (last.aborted /\ last.renewals = 1 /\ last.settled # "none")
        => /\ last.sends = 1
           /\ last.settled = "rejected"
           /\ last.op = "renewalOk"

C23_StoreWrittenBeforeResend ==
    [][last'.op = "renewalOk"
          => /\ authToken' = last'.tok
             /\ last'.bearer = last'.tok
             /\ last'.bearer # authToken]_vars

\* C23 witness: a renewal replaced a stored access token and the call went
\* on the wire a second time with the new one.
C23_Witness ==
    /\ last.op = "renewalOk" /\ last.settled = "none" /\ last.sends = 2
    /\ last.wrote /\ last.tok # None
    /\ last.bearer = last.tok /\ authToken = last.tok

\* C24: a refresh token value is submitted to the renewal endpoint at most
\* once: no two calls of one run have made their renewal exchange with the
\* same refresh token.
C24_RefreshTokenSubmittedOnce ==
    \A r, s \in Slots :
        (r # s /\ req[r].renewals = 1 /\ req[s].renewals = 1)
            => req[r].rt # req[s].rt

\* C25: the renewal exchange does not pass through the client's own
\* interceptors: whatever error answers it, 401 included, the step that
\* takes the answer ends the exchange, starts no further one, re-sends
\* nothing, and rejects the call the exchange was made for.
C25_RenewalOutsideInterceptors ==
    [][\A r \in Slots :
          (req[r].st = "refreshing" /\ req'[r].st # "refreshing"
           /\ last'.op # "renewalOk")
          => /\ last'.op = "renewalFailed"
             /\ req'[r].st = "done"
             /\ last'.settled = "rejected"
             /\ last'.renewals = 1
             /\ last'.sends = 1
             /\ RenewalsInFlight' = RenewalsInFlight \ {r}]_vars

\* C25 witness: the renewal endpoint answered 401 and the call that waited
\* for it was rejected after the one exchange.
C25_Witness ==
    /\ last.op = "renewalFailed" /\ last.status = Unauthorized
    /\ last.renewals = 1 /\ last.sends = 1 /\ last.settled = "rejected"
    /\ RenewalsInFlight = {}

\* C26: provided every network call eventually returns, every call issued
\* through the client eventually settles, whatever the answers are, 401 to
\* every call included: again and again nothing is left on the wire, so no
\* call stays unsettled for ever; and per call the original goes on the
\* wire at most twice and at most one renewal exchange is made.
C26_EveryCallSettles ==
    /\ [](\A r \in Slots : req[r].sends <= 2 /\ req[r].renewals <= 1)
    /\ []<>(\A r \in Slots : req[r].st \notin {"sent", "refreshing"})

\* C26 witness: a call answered 401 on its first send and 401 again on its
\* re-send after a renewal has settled, and nothing is left on the wire.
C26_Witness ==
    /\ last.op = "respond" /\ last.status = Unauthorized /\ last.retry
    /\ last.sends = 2 /\ last.renewals = 1 /\ last.settled = "rejected"
    /\ \A r \in Slots : req[r].st \notin {"sent", "refreshing"}

\* C27: in every reachable state a stored refresh token implies a stored
\* access token: no sequence of sign-in, sign-up, sign-out and renewals,
\* succeeding or failing, leaves 'refresh_token' present and 'auth_token'
\* absent.
C27_RefreshImpliesAccess == refreshToken # None => authToken # None

\* C27 witness: a renewal exchange has failed with a refresh token in the
\* store, and the access token is still there.
C27_Witness ==
    /\ last.op = "renewalFailed" /\ refreshToken # None /\ authToken # None

\* C28: once signOut() has settled and until the next sign-in or sign-up
\* that stores a pair, no copy of a call put on the wire carries a bearer
\* credential, the re-send of a call that was waiting for its renewal when
\* the sign-out settled included.
C28_NoBearerAfterSignOut ==
    (/\ last.op = "renewalOk" /\ last.settled = "none" /\ last.discard
     /\ refreshToken = None)
        => last.bearer = None

\* C29: a 401 answered to the sign-in or sign-up exchange never leads to a
\* renewal exchange nor to a re-send of the sign-in or sign-up call.
C29_NoRenewalForSignIn ==
    \A r \in Slots :
        req[r].kind \in {"login", "register"}
            => req[r].renewals = 0 /\ req[r].sends <= 1

\* C30: when the exchange made by AuthService.refreshToken() fails, the
\* method returns null and both stored tokens are what they were when it
\* was called: handling the call has written nothing to the store.
C30_FailedRefreshLeavesStore ==
    (last.kind = "refresh" /\ last.settled = "rejected") => ~last.wrote

====
